---- MODULE Spec2Model ----
(***************************************************************************)
(* State-machine model of the sentencepiece Rust binding                   *)
(* (sentencepiece/src/lib.rs, with the older src/lib.rs where it differs). *)
(*                                                                         *)
(* The binding owns an opaque native engine handle, passes requests over   *)
(* a C boundary and receives malloc'ed buffers that it wraps in CData.     *)
(* The native engine is the environment: what it returns (status codes,    *)
(* pointers, lengths, buffer contents) is drawn from bounded sets.         *)
(* A panic is modelled as unwinding (the default build profile): the       *)
(* locals of the panicking function are dropped, the call ends "panic".    *)
(***************************************************************************)
EXTENDS Integers, Sequences, FiniteSets, TLC

VARIABLES
    native,   \* native engine instances: handle -> "unalloc" | "empty" | "loaded"
    procs,    \* handles of the SentencePieceProcessor values owned by callers
    heap,     \* malloc heap of response buffers: address -> "free" | "live"
    frame,    \* one call frame per calling thread
    faults,   \* memory errors committed at the native boundary
    model     \* the serialized model each engine instance holds, where the
              \* engine is modelled as the specification describes it

vars == <<native, procs, heap, frame, faults, model>>

(***************************************************************************)
(* Bounds of the model.                                                    *)
(***************************************************************************)
NThreads == 1
MaxHandles == 2
MaxPathLen == 2
MaxPieces == 2
MaxItems == 2
MaxTrips == 2

Threads == DOMAIN frame
Handles == 1..MaxHandles
Addrs == DOMAIN heap
NULL == 0

(***************************************************************************)
(* Option values: <<>> is None, <<v>> is Some(v).                          *)
(***************************************************************************)
None == <<>>
Some(v) == <<v>>
IsSome(o) == Len(o) = 1

RECURSIVE SeqsUpTo(_, _)
SeqsUpTo(S, n) ==
    IF n = 0 THEN {<<>>}
    ELSE LET shorter == SeqsUpTo(S, n - 1)
         IN  shorter \cup {Append(s, x) : s \in {q \in shorter : Len(q) = n - 1}, x \in S}

Count(log, name) == Cardinality({i \in DOMAIN log : log[i] = name})

(***************************************************************************)
(* CSentencePieceError: the discriminants of the enum, in declaration      *)
(* order, and num_traits::FromPrimitive::from_i32 as derived for it.       *)
(***************************************************************************)
CSentencePieceError ==
    { <<1, "Cancelled">>, <<2, "Unknown">>, <<3, "InvalidArgument">>,
      <<4, "DeadlineExceeded">>, <<5, "NotFound">>, <<6, "AlreadyExists">>,
      <<7, "PermissionDenied">>, <<16, "Unauthenticated">>,
      <<8, "ResourceExhausted">>, <<9, "FailedPrecondition">>,
      <<10, "Aborted">>, <<11, "OutOfRange">>, <<12, "Unimplemented">>,
      <<13, "Internal">>, <<14, "Unavailable">>, <<15, "DataLoss">> }

Variants == {e[2] : e \in CSentencePieceError}

\* A derive that takes the variants to be numbered 1..15 without gaps.
from_i32_contiguous(n) ==
    IF \E e \in CSentencePieceError : e[1] = n /\ n <= 15
    THEN Some((CHOOSE e \in CSentencePieceError : e[1] = n)[2])
    ELSE None

from_i32(n) ==
    IF \E e \in CSentencePieceError : e[1] = n
    THEN Some((CHOOSE e \in CSentencePieceError : e[1] = n)[2])
    ELSE None

(***************************************************************************)
(* Results of a call.                                                      *)
(***************************************************************************)
NoResult == [kind |-> "none", err |-> "", detail |-> <<>>, value |-> <<>>]
Ok(v) == [kind |-> "Ok", err |-> "", detail |-> <<>>, value |-> v]
Err(e, d) == [kind |-> "Err", err |-> e, detail |-> d, value |-> <<>>]
Panic(msg) == [kind |-> "panic", err |-> "", detail |-> msg, value |-> <<>>]

\* The match with a fallback arm: None => CSentencePieceError::Unknown.
c_error_coerced(status) ==
    IF IsSome(from_i32(status))
    THEN Err("CError", from_i32(status)[1])
    ELSE Err("CError", "Unknown")

\* match FromPrimitive::from_i32(status as i32) { Some(e) => e, None => unreachable!() }
\* followed by Err(SentencePieceError::CError(c_error))
c_error(status) ==
    IF IsSome(from_i32(status))
    THEN Err("CError", from_i32(status)[1])
    ELSE Panic("unreachable")

(***************************************************************************)
(* std::ffi::CString::new: rejects an interior NUL byte, else appends the  *)
(* terminator.                                                             *)
(***************************************************************************)
HasNul(bytes) == \E i \in DOMAIN bytes : bytes[i] = 0

\* CString::from_vec_unchecked: no test for an interior NUL.
CString_new_unchecked(bytes) == Some(Append(bytes, 0))

CString_new(bytes) ==
    IF HasNul(bytes) THEN None ELSE Some(Append(bytes, 0))

(***************************************************************************)
(* Call frames.                                                            *)
(***************************************************************************)
IdleFrame ==
    [op |-> "idle", pc |-> "idle", h |-> 0, arg |-> <<>>, calls |-> <<>>,
     status |-> 0, data |-> NULL, len |-> 0, content |-> <<>>, views |-> <<>>,
     ret |-> 0, src |-> <<>>, result |-> NoResult]

Constructors == {"open", "open_legacy", "from_serialized_proto"}

(***************************************************************************)
(* The native boundary.                                                    *)
(***************************************************************************)
NativeStatuses == (-1)..17

PathBytes == {0, 97}
Paths == SeqsUpTo(PathBytes, MaxPathLen) \ {<<>>}
ModelData == {<<>>, <<10>>, <<10, 18>>}

\* spp_free leaking the instance: the wrapper holds a raw pointer without Drop.
spp_free_leak(nat, h) == nat

\* spp_free(self.inner): releases the native instance.
spp_free(nat, h) == [nat EXCEPT ![h] = "unalloc"]

\* The memory errors a spp_free on h commits in native state nat.
FreeFaults(nat, h) == IF nat[h] = "unalloc" THEN {"handle_double_free"} ELSE {}

\* The memory errors a native operation on h commits.
UseFaults(nat, h) == IF nat[h] = "unalloc" THEN {"handle_use_after_free"} ELSE {}

\* A two-phase constructor: the processor is handed out before it is loaded.
new_processor_published(t, op, arg) ==
    /\ frame[t].pc = "idle"
    /\ \E h \in Handles :
        /\ native[h] = "unalloc"
        /\ native' = [native EXCEPT ![h] = "empty"]
        /\ procs' = procs \cup {h}
        /\ frame' = [frame EXCEPT ![t] =
                [IdleFrame EXCEPT !.op = op, !.pc = "constructed", !.h = h,
                                  !.arg = arg, !.calls = <<"spp_new">>]]
    /\ UNCHANGED <<heap, faults, model>>

(***************************************************************************)
(* open / from_serialized_proto, first statement:                          *)
(*   let spp = SentencePieceProcessor { inner: unsafe { spp_new() } };     *)
(***************************************************************************)
new_processor(t, op, arg) ==
    /\ frame[t].pc = "idle"
    /\ \E h \in Handles :
        /\ native[h] = "unalloc"
        /\ native' = [native EXCEPT ![h] = "empty"]
        /\ frame' = [frame EXCEPT ![t] =
                [IdleFrame EXCEPT !.op = op, !.pc = "constructed", !.h = h,
                                  !.arg = arg, !.calls = <<"spp_new">>]]
    /\ UNCHANGED <<procs, heap, faults, model>>

open_new(t) == \E path \in Paths : new_processor(t, "open", path)

open_legacy_new(t) == \E path \in Paths : new_processor(t, "open_legacy", path)

from_serialized_proto_new_with(t, datas) ==
    \E data \in datas : new_processor(t, "from_serialized_proto", data)

from_serialized_proto_new(t) == from_serialized_proto_new_with(t, ModelData)

\* A constructor that returns Ok(spp) whatever the load returned.
load_result_unchecked(t, status, load_fn) ==
    /\ native' = [native EXCEPT ![frame[t].h] = IF status = 0 THEN "loaded" ELSE @]
    /\ procs' = procs \cup {frame[t].h}
    /\ faults' = faults \cup UseFaults(native, frame[t].h)
    /\ frame' = [frame EXCEPT ![t] =
           [@ EXCEPT !.pc = "done", !.status = status,
                     !.calls = Append(@, load_fn), !.result = Ok(frame[t].h)]]

\* The rest of a constructor once the native load returned `status`:
\* Ok(spp) moves the processor to the caller, every other exit drops spp.
load_result(t, status, load_fn) ==
    LET f == frame[t]
        nat == [native EXCEPT ![f.h] = IF status = 0 THEN "loaded" ELSE @]
    IN  IF status = 0
        THEN /\ native' = nat
             /\ procs' = procs \cup {f.h}
             /\ faults' = faults \cup UseFaults(native, f.h)
             /\ frame' = [frame EXCEPT ![t] =
                    [f EXCEPT !.pc = "done", !.status = status,
                              !.calls = Append(@, load_fn),
                              !.result = Ok(f.h)]]
        ELSE /\ native' = spp_free(nat, f.h)
             /\ procs' = procs
             /\ faults' = faults \cup UseFaults(native, f.h) \cup FreeFaults(nat, f.h)
             /\ frame' = [frame EXCEPT ![t] =
                    [f EXCEPT !.pc = "done", !.status = status,
                              !.calls = @ \o <<load_fn, "spp_free">>,
                              !.result = c_error(status)]]

\* open, after spp_new: CString::new(path)...map_err(FilenameContainsNul)?,
\* then spp_load and the match on its result.
open_load(t) ==
    /\ frame[t].pc = "constructed"
    /\ frame[t].op = "open"
    /\ IF IsSome(CString_new(frame[t].arg))
       THEN \E status \in NativeStatuses : load_result(t, status, "spp_load")
       ELSE /\ native' = spp_free(native, frame[t].h)
            /\ faults' = faults \cup FreeFaults(native, frame[t].h)
            /\ frame' = [frame EXCEPT ![t] =
                   [@ EXCEPT !.pc = "done", !.calls = Append(@, "spp_free"),
                             !.result = Err("FilenameContainsNul", frame[t].arg)]]
            /\ procs' = procs
    /\ UNCHANGED <<heap, model>>

\* The older open: CString::new(path).unwrap() panics on an interior NUL.
open_legacy_load(t) ==
    /\ frame[t].pc = "constructed"
    /\ frame[t].op = "open_legacy"
    /\ IF IsSome(CString_new(frame[t].arg))
       THEN \E status \in NativeStatuses : load_result(t, status, "spp_load")
       ELSE /\ native' = spp_free(native, frame[t].h)
            /\ faults' = faults \cup FreeFaults(native, frame[t].h)
            /\ frame' = [frame EXCEPT ![t] =
                   [@ EXCEPT !.pc = "done", !.calls = Append(@, "spp_free"),
                             !.result = Panic("unwrap")]]
            /\ procs' = procs
    /\ UNCHANGED <<heap, model>>

\* from_serialized_proto, after spp_new: spp_from_serialized_proto, which
\* returns a status of `statuses`, and the match.
from_serialized_proto_load_with(t, statuses) ==
    /\ frame[t].pc = "constructed"
    /\ frame[t].op = "from_serialized_proto"
    /\ \E status \in statuses :
           load_result(t, status, "spp_from_serialized_proto")
    /\ UNCHANGED <<heap, model>>

from_serialized_proto_load(t) == from_serialized_proto_load_with(t, NativeStatuses)

\* A processor that can be dropped while calls on it are in progress (a raw
\* pointer copied out of the owner).
Borrowed_never(h) == FALSE

\* A method call borrows the processor (&self) until it returns; a call that
\* aborted the process never returns.
Borrowed(h) ==
    \E t \in Threads :
        frame[t].pc \in {"native", "returned", "aborted"} /\ frame[t].h = h

\* Ok(spp) of a constructor that the caller has not taken yet.
Delivering(h) ==
    \E t \in Threads :
        /\ frame[t].pc = "done"
        /\ frame[t].op \in Constructors
        /\ frame[t].result.kind = "Ok"
        /\ frame[t].h = h

\* impl Drop for SentencePieceProcessor: the owner drops a processor it has
\* received and nobody borrows.
drop(h) ==
    /\ h \in procs
    /\ ~Borrowed(h)
    /\ ~Delivering(h)
    /\ native' = spp_free(native, h)
    /\ faults' = faults \cup FreeFaults(native, h)
    /\ procs' = procs \ {h}
    /\ model' = [model EXCEPT ![h] = <<>>]
    /\ UNCHANGED <<heap, frame>>

(***************************************************************************)
(* CData: a pointer and a length received from a native call.              *)
(***************************************************************************)
\* A Deref that takes the slice one byte short.
deref_short(f) == [data |-> f.data, len |-> IF f.len > 0 THEN f.len - 1 ELSE 0]

\* impl Deref for CData: slice::from_raw_parts(self.data, self.len).
\* The slice is the first len bytes of the buffer; the model keeps the
\* buffer's content whole and records the view taken.
deref(f) == [data |-> f.data, len |-> f.len]

\* A copy that drops the last byte of the slice.
to_owned_short(c) == SubSeq(c.content, 1, c.len - 1)

\* <[u8] as ToOwned>::to_owned through the Deref: a copy of the len bytes the
\* slice covers.
to_owned(c) == SubSeq(c.content, 1, deref(c).len)

\* A CData whose Drop was forgotten (mem::forget, or a bare pointer).
CData_drop_leak(hp, data) == hp

\* impl Drop for CData: libc::free(self.data); free(NULL) does nothing.
CData_drop(hp, data) == IF data = NULL THEN hp ELSE [hp EXCEPT ![data] = "free"]

\* The memory errors a free(data) commits on heap hp.
BufFreeFaults(hp, data) ==
    IF data # NULL /\ hp[data] = "free" THEN {"buffer_double_free"} ELSE {}

(***************************************************************************)
(* SentencePieceText / SentencePiece (sentencepiece.rs): every field is    *)
(* optional on the wire.  A piece record's values are fixed by its place   *)
(* in the message; what varies is which fields are present.                *)
(***************************************************************************)
PieceRecords ==
    [piece : {None, Some("a")}, id : {None, Some(7)},
     begin : {None, Some(0)}, end : {None, Some(1)}]

WireMessages ==
    [text : {None, Some("a")}, pieces : SeqsUpTo(PieceRecords, MaxPieces)]

FieldLen(o) == IF IsSome(o) THEN 2 ELSE 0

RECURSIVE PiecesLen(_)
PiecesLen(ps) ==
    IF ps = <<>> THEN 0
    ELSE 2 + FieldLen(ps[1].piece) + FieldLen(ps[1].id) + FieldLen(ps[1].begin)
           + FieldLen(ps[1].end) + PiecesLen(Tail(ps))

\* Size of the protobuf encoding: a tag and a payload per present field, and
\* nothing at all for a message with no field set.
EncodedLen(m) == FieldLen(m.text) + PiecesLen(m.pieces)

\* What spp_encode_as_serialized_proto / spp_sample_encode_as_serialized_proto
\* can hand back: the encoding of a message, or bytes that are no message.
EncodeReplies ==
    {[wellformed |-> TRUE, msg |-> m, len |-> EncodedLen(m)] : m \in WireMessages}
    \cup {[wellformed |-> FALSE, msg |-> [text |-> None, pieces |-> <<>>], len |-> 1]}

\* One element of the map in process_encode_protobuf, with the absent fields
\* filled by Default::default() instead of ok_or_else(..)?.
piece_with_id_defaulted(p) ==
    Ok([piece |-> IF IsSome(p.piece) THEN p.piece[1] ELSE "",
        id |-> IF IsSome(p.id) THEN p.id[1] ELSE 0,
        span |-> <<IF IsSome(p.begin) THEN p.begin[1] ELSE 0,
                   IF IsSome(p.end) THEN p.end[1] ELSE 0>>])

\* One element of the map with the span built as (end, begin).
piece_with_id_swapped(p) ==
    IF ~IsSome(p.piece) THEN Err("MissingData", "piece")
    ELSE IF ~IsSome(p.id) THEN Err("MissingData", "id")
    ELSE IF ~IsSome(p.begin) THEN Err("MissingData", "begin")
    ELSE IF ~IsSome(p.end) THEN Err("MissingData", "end")
    ELSE Ok([piece |-> p.piece[1], id |-> p.id[1], span |-> <<p.end[1], p.begin[1]>>])

\* One element of the map in process_encode_protobuf: the fields are taken in
\* the order piece, id, begin, end, and the first absent one is the error.
piece_with_id(p) ==
    IF ~IsSome(p.piece) THEN Err("MissingData", "piece")
    ELSE IF ~IsSome(p.id) THEN Err("MissingData", "id")
    ELSE IF ~IsSome(p.begin) THEN Err("MissingData", "begin")
    ELSE IF ~IsSome(p.end) THEN Err("MissingData", "end")
    ELSE Ok([piece |-> p.piece[1], id |-> p.id[1], span |-> <<p.begin[1], p.end[1]>>])

\* A collect that goes through all elements and keeps the last Err.
collect_last(rs) ==
    IF \E i \in DOMAIN rs : rs[i].kind = "Err"
    THEN rs[CHOOSE i \in DOMAIN rs :
                /\ rs[i].kind = "Err"
                /\ \A j \in DOMAIN rs : rs[j].kind = "Err" => j <= i]
    ELSE Ok([i \in DOMAIN rs |-> rs[i].value])

\* .collect::<Result<Vec<_>, _>>(): the first Err in sequence order, else the Vec.
collect(rs) ==
    IF \E i \in DOMAIN rs : rs[i].kind = "Err"
    THEN rs[CHOOSE i \in DOMAIN rs :
                /\ rs[i].kind = "Err"
                /\ \A j \in DOMAIN rs : rs[j].kind = "Err" => i <= j]
    ELSE Ok([i \in DOMAIN rs |-> rs[i].value])

\* process_encode_protobuf that tests nothing before parsing the buffer.
process_encode_protobuf_unchecked(c_proto) ==
    IF ~c_proto.content.wellformed
    THEN Panic("Received invalid protobuf from sentencepiece")
    ELSE collect([i \in DOMAIN c_proto.content.msg.pieces |->
                      piece_with_id(c_proto.content.msg.pieces[i])])

\* process_encode_protobuf with .unwrap_or_default() in place of .expect(..):
\* bytes that do not parse become the empty message.
process_encode_protobuf_lenient(c_proto) ==
    IF deref(c_proto).len = 0
    THEN Err("EncodeError", <<>>)
    ELSE IF ~c_proto.content.wellformed
    THEN Ok(<<>>)
    ELSE collect([i \in DOMAIN c_proto.content.msg.pieces |->
                      piece_with_id(c_proto.content.msg.pieces[i])])

\* process_encode_protobuf(c_proto: CData)
process_encode_protobuf(c_proto) ==
    IF deref(c_proto).len = 0
    THEN Err("EncodeError", <<>>)
    ELSE IF ~c_proto.content.wellformed
    THEN Panic("Received invalid protobuf from sentencepiece")
    ELSE collect([i \in DOMAIN c_proto.content.msg.pieces |->
                      piece_with_id(c_proto.content.msg.pieces[i])])

\* The Derefs process_encode_protobuf takes: c_proto.len(), then c_proto.to_owned().
encode_views(f) ==
    IF f.len = 0 THEN <<deref(f)>> ELSE <<deref(f), deref(f)>>

(***************************************************************************)
(* f32, as sign, biased exponent and mantissa, with the classification     *)
(* the assertions of sample_encode use.                                    *)
(***************************************************************************)
F32 == [sign : {0, 1}, exp : {0, 126, 255}, mant : {0, 1}]

is_normal(x) == x.exp # 0 /\ x.exp # 255
is_positive(x) == x.sign = 0
is_nan(x) == x.exp = 255 /\ x.mant # 0
is_infinite(x) == x.exp = 255 /\ x.mant = 0
is_zero(x) == x.exp = 0 /\ x.mant = 0

MaxNBest == 512
NBestValues == {0, MaxNBest, MaxNBest + 1}

\* sample_encode whose n_best assertion is off by one (n_best <= 513).
sample_encode_asserts_loose(n_best, alpha) ==
    n_best <= MaxNBest + 1 /\ is_normal(alpha) /\ is_positive(alpha)

\* The assertions with alpha tested for positive, finite and nonzero only.
sample_encode_asserts_finite(n_best, alpha) ==
    n_best <= MaxNBest /\ is_positive(alpha) /\ ~is_zero(alpha)
        /\ ~is_infinite(alpha) /\ ~is_nan(alpha)

\* assert!(n_best <= 512); assert!(alpha.is_normal() && alpha.is_positive());
sample_encode_asserts(n_best, alpha) ==
    n_best <= MaxNBest /\ is_normal(alpha) /\ is_positive(alpha)

(***************************************************************************)
(* Method calls on a processor.                                            *)
(***************************************************************************)
EncodeOps == {"encode", "sample_encode"}
DecodeOps == {"decode_piece_ids", "decode_pieces"}

\* A call on &self enters the native function native_fn.
enter_native(t, h, op, arg, native_fn) ==
    /\ frame[t].pc = "idle"
    /\ h \in procs
    /\ frame' = [frame EXCEPT ![t] =
            [IdleFrame EXCEPT !.op = op, !.pc = "native", !.h = h, !.arg = arg,
                              !.calls = <<native_fn>>]]
    /\ faults' = faults \cup UseFaults(native, h)
    /\ UNCHANGED <<native, procs, heap, model>>

\* A call that ends before any native function is entered.
end_early(t, h, op, arg, result) ==
    /\ frame[t].pc = "idle"
    /\ h \in procs
    /\ frame' = [frame EXCEPT ![t] =
            [IdleFrame EXCEPT !.op = op, !.pc = "done", !.h = h, !.arg = arg,
                              !.result = result]]
    /\ UNCHANGED <<native, procs, heap, faults, model>>

\* The native function returns a malloc'ed buffer, which the caller wraps in CData.
native_return(t, status, data, len, content) ==
    /\ IF data = NULL THEN heap' = heap
       ELSE /\ heap[data] = "free"
            /\ heap' = [heap EXCEPT ![data] = "live"]
    /\ frame' = [frame EXCEPT ![t] =
            [@ EXCEPT !.pc = "returned", !.status = status, !.data = data,
                      !.len = len, !.content = content]]
    /\ UNCHANGED <<native, procs, faults, model>>

\* The call ends with `result`; its CData goes out of scope on the way.
end_call(t, result, views) ==
    /\ heap' = CData_drop(heap, frame[t].data)
    /\ faults' = faults \cup BufFreeFaults(heap, frame[t].data)
    /\ frame' = [frame EXCEPT ![t] =
            [@ EXCEPT !.pc = "done", !.calls = Append(@, "free"),
                      !.views = views, !.result = result]]
    /\ UNCHANGED <<native, procs, model>>

\* slice::from_raw_parts requires a non-null pointer, for a slice of length 0
\* too: a view of a null pointer is undefined behaviour.
NullView(views) == \E i \in DOMAIN views : views[i].data = NULL

\* What a build makes of the undefined view: one that checks the precondition
\* of from_raw_parts aborts the process at the view, without unwinding (no
\* Drop runs, no result is returned); any other goes on as end_call has it.
abort(t, views) ==
    /\ NullView(views)
    /\ frame' = [frame EXCEPT ![t] = [@ EXCEPT !.pc = "aborted", !.views = views]]
    /\ UNCHANGED <<native, procs, heap, faults, model>>

\* The sentences callers pass: a &str is any UTF-8 text, a NUL included.
Sentences == {<<97, 98>>, <<97, 0, 98>>}

\* A sentence passed as a C string: the length is the number of bytes before
\* the first NUL.
sentence_request_c_str(sentence) ==
    [ptr |-> sentence,
     len |-> CHOOSE k \in 0..Len(sentence) :
                 /\ \A j \in 1..k : sentence[j] # 0
                 /\ k = Len(sentence) \/ sentence[k + 1] = 0]

\* What crosses the boundary for a sentence: sentence.as_ptr() and
\* sentence.as_bytes().len().
sentence_request(sentence) == [ptr |-> sentence, len |-> Len(sentence)]

\* encode(&self, sentence)
encode_call_with(t, sentences) ==
    \E h \in Handles, sentence \in sentences :
        enter_native(t, h, "encode", <<sentence_request(sentence)>>,
                     "spp_encode_as_serialized_proto")

encode_call(t) == encode_call_with(t, Sentences)

\* sample_encode(&self, sentence, n_best, alpha)
sample_encode_call_with(t, sentences, n_bests, alphas) ==
    \E h \in Handles, sentence \in sentences, n_best \in n_bests, alpha \in alphas :
        IF sample_encode_asserts(n_best, alpha)
        THEN enter_native(t, h, "sample_encode",
                          <<n_best, alpha, sentence_request(sentence)>>,
                          "spp_sample_encode_as_serialized_proto")
        ELSE end_early(t, h, "sample_encode", <<n_best, alpha, sentence>>,
                       Panic("assert"))

sample_encode_call(t) == sample_encode_call_with(t, Sentences, NBestValues, F32)

\* The native encode returns one of `replies`; it has no status channel.  The
\* buffer is malloc'ed at the size of the reply, and malloc(0) returns a
\* pointer or null.
encode_return_from(t, replies) ==
    /\ frame[t].pc = "native"
    /\ frame[t].op \in EncodeOps
    /\ \E reply \in replies :
           \E data \in Addrs \cup (IF reply.len = 0 THEN {NULL} ELSE {}) :
               native_return(t, 0, data, reply.len, reply)

encode_return(t) == encode_return_from(t, EncodeReplies)

encode_finish(t) ==
    /\ frame[t].pc = "returned"
    /\ frame[t].op \in EncodeOps
    /\ \/ end_call(t, process_encode_protobuf(frame[t]), encode_views(frame[t]))
       \/ abort(t, <<deref(frame[t])>>)

(***************************************************************************)
(* Decoding.                                                               *)
(***************************************************************************)
VocabSize == 1000
IdValues == {8, VocabSize}
IdSeqs == SeqsUpTo(IdValues, MaxItems)
PieceStrings == {<<97>>, <<97, 0, 98>>}
PieceSeqs == SeqsUpTo(PieceStrings, MaxItems)
DecodedTexts == {<<>>, <<97>>, <<195, 169>>, <<195>>, <<97, 255>>}

\* String::from_utf8 on one- and two-byte sequences (no longer lead byte is
\* drawn): Some(bytes) when they are valid UTF-8.
RECURSIVE Utf8Valid(_)
Utf8Valid(b) ==
    IF b = <<>> THEN TRUE
    ELSE IF b[1] < 128 THEN Utf8Valid(Tail(b))
    ELSE IF b[1] \in 194..223 /\ Len(b) >= 2 /\ b[2] \in 128..191
    THEN Utf8Valid(Tail(Tail(b)))
    ELSE FALSE

from_utf8(b) == IF Utf8Valid(b) THEN Some(b) ELSE None

\* The engine's answer to a decode by id: an id outside the vocabulary is
\* OutOfRange (11); otherwise any status.
spp_decode_piece_ids_statuses(ids) ==
    IF \E i \in DOMAIN ids : ids[i] >= VocabSize THEN {11} ELSE NativeStatuses

\* decode_piece_ids(&self, pieces: &[u32])
decode_piece_ids_call_with(t, idseqs) ==
    \E h \in Handles, ids \in idseqs :
        enter_native(t, h, "decode_piece_ids", ids, "spp_decode_piece_ids")

decode_piece_ids_call(t) == decode_piece_ids_call_with(t, IdSeqs)

\* The conversion of the pieces that looks at the first piece only.
owned_c_pieces_first_only(pieces) ==
    IF pieces = <<>> \/ IsSome(CString_new(pieces[1]))
    THEN Some([i \in DOMAIN pieces |-> Append(pieces[i], 0)])
    ELSE None

\* pieces.iter().map(|piece| CString::new(piece.as_ref()))
\*       .collect::<Result<Vec<_>, _>>()
owned_c_pieces(pieces) ==
    IF \A i \in DOMAIN pieces : IsSome(CString_new(pieces[i]))
    THEN Some([i \in DOMAIN pieces |-> CString_new(pieces[i])[1]])
    ELSE None

\* decode_pieces(&self, pieces): .map_err(|_| PieceContainsNul)? before the call.
decode_pieces_call(t) ==
    \E h \in Handles, pieces \in PieceSeqs :
        IF IsSome(owned_c_pieces(pieces))
        THEN enter_native(t, h, "decode_pieces", pieces, "spp_decode_pieces")
        ELSE end_early(t, h, "decode_pieces", pieces, Err("PieceContainsNul", <<>>))

\* The native decode returns a status of `statuses`: on status 0 the decoded
\* bytes, one of `texts` (for an empty text a malloc(0) pointer or null);
\* otherwise the out-parameters are left as initialised (null, 0) or set to an
\* empty buffer.
decode_return_from(t, statuses, texts) ==
    /\ frame[t].pc = "native"
    /\ frame[t].op \in DecodeOps
    /\ \E status \in statuses \cap (IF frame[t].op = "decode_piece_ids"
                                    THEN spp_decode_piece_ids_statuses(frame[t].arg)
                                    ELSE NativeStatuses) :
          IF status = 0
          THEN \E text \in texts :
                   \E data \in Addrs \cup (IF text = <<>> THEN {NULL} ELSE {}) :
                       native_return(t, status, data, Len(text), text)
          ELSE \E data \in Addrs \cup {NULL} :
                   native_return(t, status, data, 0, <<>>)

decode_return(t) == decode_return_from(t, NativeStatuses, DecodedTexts)

\* The tail of decode_piece_ids / decode_pieces that reads the buffer whatever
\* the status was.
decode_result_ungated(f) ==
    IF IsSome(from_utf8(to_owned(f)))
    THEN Ok(from_utf8(to_owned(f))[1])
    ELSE Panic("Decoded sentence is not UTF-8, please report this bug.")

\* The tail of decode_piece_ids / decode_pieces: if status == 0 {..} else {..}
decode_result(f) ==
    IF f.status = 0
    THEN IF IsSome(from_utf8(to_owned(f)))
         THEN Ok(from_utf8(to_owned(f))[1])
         ELSE Panic("Decoded sentence is not UTF-8, please report this bug.")
    ELSE c_error(f.status)

decode_views(f) == IF f.status = 0 THEN <<deref(f)>> ELSE <<>>

decode_finish(t) ==
    /\ frame[t].pc = "returned"
    /\ frame[t].op \in DecodeOps
    /\ \/ end_call(t, decode_result(frame[t]), decode_views(frame[t]))
       \/ abort(t, decode_views(frame[t]))

(***************************************************************************)
(* to_serialized_proto(&self) -> Vec<u8>                                   *)
(***************************************************************************)
SerializedModels == {<<10>>, <<10, 18>>}

to_serialized_proto_call(t) ==
    \E h \in Handles :
        enter_native(t, h, "to_serialized_proto", <<>>, "spp_to_serialized_proto")

to_serialized_proto_return(t) ==
    /\ frame[t].pc = "native"
    /\ frame[t].op = "to_serialized_proto"
    /\ \E bytes \in SerializedModels, data \in Addrs :
           native_return(t, 0, data, Len(bytes), bytes)

to_serialized_proto_finish(t) ==
    /\ frame[t].pc = "returned"
    /\ frame[t].op = "to_serialized_proto"
    /\ end_call(t, Ok(to_owned(frame[t])), <<deref(frame[t])>>)

(***************************************************************************)
(* Vocabulary metadata: the reserved ids and piece_to_id.  These native     *)
(* functions return a scalar (an i32, a bool) and no buffer.                *)
(***************************************************************************)
ReservedIdOps == {"bos_id", "eos_id", "pad_id", "unk_id"}
NativeIds == {-1, 0, 2}

\* `x as u32` on an i32: the identity on x >= 0, and 2^32 + x on x < 0.  TLC's
\* integers end at 2^31 - 1, so the wrapped value is kept as 2^31 + x: still
\* large, positive and different for different x.
as_u32(x) == IF x >= 0 THEN x ELSE (x + 2147483647) + 1

\* A scalar native function returns: the call ends with `result`.
scalar_return(t, native_fn, ret, result) ==
    /\ frame[t].pc = "native"
    /\ frame' = [frame EXCEPT ![t] =
            [@ EXCEPT !.pc = "done", !.ret = ret, !.result = result,
                      !.calls = IF native_fn = "" THEN @ ELSE Append(@, native_fn)]]
    /\ UNCHANGED <<native, procs, heap, faults, model>>

\* if bos_id < 0 { None } else { Some(bos_id as u32) }
bos_id(v) == IF v < 0 THEN Ok(None) ELSE Ok(Some(as_u32(v)))

\* if eos_id < 0 { None } else { Some(eos_id as u32) }
eos_id(v) == IF v < 0 THEN Ok(None) ELSE Ok(Some(as_u32(v)))

\* pad_id without the test of the sign: Some(pad_id as u32).
pad_id_unsigned(v) == Ok(Some(as_u32(v)))

\* if pad_id < 0 { None } else { Some(pad_id as u32) }
pad_id(v) == IF v < 0 THEN Ok(None) ELSE Ok(Some(as_u32(v)))

\* assert!(unk_id >= 0); unk_id as u32 -- a bare u32, not an Option.
unk_id(v) == IF v >= 0 THEN Ok(<<"u32", as_u32(v)>>) ELSE Panic("assert")

reserved_id(op, v) ==
    CASE op = "bos_id" -> bos_id(v)
      [] op = "eos_id" -> eos_id(v)
      [] op = "pad_id" -> pad_id(v)
      [] op = "unk_id" -> unk_id(v)

\* bos_id(&self), eos_id(&self), pad_id(&self), unk_id(&self)
reserved_id_call(t) ==
    \E h \in Handles, op \in ReservedIdOps :
        enter_native(t, h, op, <<>>, "spp_" \o op)

reserved_id_return(t) ==
    /\ frame[t].op \in ReservedIdOps
    /\ \E v \in NativeIds : scalar_return(t, "", v, reserved_id(frame[t].op, v))

\* The pieces callers look up: a piece, a string with a NUL, and two more.
LookupPieces == PieceStrings \cup {<<99>>, <<60, 62>>}

\* The bytes a native function reads from a C string: up to the first NUL.
RECURSIVE c_str(_)
c_str(bytes) ==
    IF bytes = <<>> \/ bytes[1] = 0 THEN <<>> ELSE <<bytes[1]>> \o c_str(Tail(bytes))

\* piece_to_id(&self, piece): let c_piece = CString::new(piece.as_bytes())?;
piece_to_id_call_with(t, pieces) ==
    \E h \in Handles, piece \in pieces :
        IF IsSome(CString_new(piece))
        THEN enter_native(t, h, "piece_to_id", <<piece, CString_new(piece)[1]>>,
                          "spp_piece_to_id")
        ELSE end_early(t, h, "piece_to_id", <<piece>>, Err("NulError", <<>>))

piece_to_id_call(t) == piece_to_id_call_with(t, LookupPieces)

\* piece_to_id without the spp_is_unknown test.
piece_to_id_result_unchecked(id, unknown) == Ok(Some(as_u32(id)))

\* if spp_is_unknown(self.inner, id) { Ok(None) } else { Ok(Some(id as u32)) }
piece_to_id_result(id, unknown) ==
    IF unknown THEN Ok(None) ELSE Ok(Some(as_u32(id)))

\* spp_piece_to_id returns `id`, spp_is_unknown(id) returns `unknown`.
piece_to_id_return_with(t, id, unknown) ==
    /\ frame[t].op = "piece_to_id"
    /\ scalar_return(t, "spp_is_unknown", id, piece_to_id_result(id, unknown))

piece_to_id_return(t) ==
    \E id \in NativeIds, unknown \in BOOLEAN : piece_to_id_return_with(t, id, unknown)

\* The caller takes the result; the thread is free for its next call.
return(t) ==
    /\ frame[t].pc = "done"
    /\ frame' = [frame EXCEPT ![t] = IdleFrame]
    /\ UNCHANGED <<native, procs, heap, faults, model>>

(***************************************************************************)
(* The native engine as the specification describes it: it keeps the model *)
(* it was loaded from, segments a text into consecutive pieces, decodes    *)
(* ids back to the pieces' bytes and looks pieces up in its vocabulary.    *)
(***************************************************************************)
UnkId == 0
UnkPiece == <<60, 62>>

\* The vocabulary of the loaded model, as <<id, piece>>.
Vocabulary == {<<UnkId, UnkPiece>>, <<8, <<97>>>>, <<4, <<98>>>>, <<10, <<97, 98>>>>}

\* The pieces that are matched against text: all but the unknown piece.
NormalPieces == {e[2] : e \in Vocabulary} \ {UnkPiece}

PieceToId(piece) ==
    IF \E e \in Vocabulary : e[2] = piece
    THEN (CHOOSE e \in Vocabulary : e[2] = piece)[1]
    ELSE UnkId

IsUnknown(id) == id = UnkId

IdToPiece(id) == (CHOOSE e \in Vocabulary : e[1] = id)[2]

\* The bytes the engine reads for a request: len bytes from ptr.
Input(req) == SubSeq(req.ptr, 1, req.len)

\* Where a piece that starts after byte `from` of text can end: after a
\* vocabulary piece, or after one byte that starts no vocabulary piece (which
\* becomes a piece of its own with the unknown id).
Cuts(text, from) ==
    {to \in (from + 1)..Len(text) :
        \/ SubSeq(text, from + 1, to) \in NormalPieces
        \/ to = from + 1 /\ <<text[to]>> \notin NormalPieces}

\* The segmentations of text from byte offset `from` on, as piece records.
RECURSIVE Segment(_, _)
Segment(text, from) ==
    IF from >= Len(text) THEN {<<>>}
    ELSE UNION {
            {<<[piece |-> Some(SubSeq(text, from + 1, to)),
                id |-> Some(PieceToId(SubSeq(text, from + 1, to))),
                begin |-> Some(from), end |-> Some(to)]>> \o rest :
                    rest \in Segment(text, to)} : to \in Cuts(text, from)}

EngineReply(text, pieces) ==
    LET m == [text |-> Some(text), pieces |-> pieces]
    IN  [wellformed |-> TRUE, msg |-> m, len |-> EncodedLen(m)]

\* sample_encode answers with any segmentation, encode with a shortest one.
SampleReplies(text) == {EngineReply(text, seg) : seg \in Segment(text, 0)}

BestReplies(text) ==
    {r \in SampleReplies(text) :
        \A q \in SampleReplies(text) : Len(r.msg.pieces) <= Len(q.msg.pieces)}

RECURSIVE DecodeIds(_)
DecodeIds(ids) ==
    IF ids = <<>> THEN <<>> ELSE IdToPiece(ids[1]) \o DecodeIds(Tail(ids))

request_of(f) == IF f.op = "encode" THEN f.arg[1] ELSE f.arg[3]

\* spp_encode_as_serialized_proto / spp_sample_encode_as_serialized_proto
spp_encode(t) ==
    encode_return_from(t,
        IF frame[t].op = "encode"
        THEN BestReplies(Input(request_of(frame[t])))
        ELSE SampleReplies(Input(request_of(frame[t]))))

\* spp_decode_piece_ids: OutOfRange for an id outside the vocabulary, with the
\* out-parameters untouched; otherwise the bytes of the pieces, in order.
spp_decode_piece_ids(t) ==
    /\ frame[t].pc = "native"
    /\ frame[t].op = "decode_piece_ids"
    /\ IF \E i \in DOMAIN frame[t].arg : frame[t].arg[i] >= VocabSize
       THEN native_return(t, 11, NULL, 0, <<>>)
       ELSE \E data \in Addrs :
                native_return(t, 0, data, Len(DecodeIds(frame[t].arg)),
                              DecodeIds(frame[t].arg))

\* spp_piece_to_id, then spp_is_unknown on the id it gave.
spp_piece_to_id(t) ==
    LET id == PieceToId(c_str(frame[t].arg[2]))
    IN  piece_to_id_return_with(t, id, IsUnknown(id))

\* spp_from_serialized_proto: bytes that are a serialized model are kept and
\* the status is 0; other bytes are refused with a status of the taxonomy.
spp_from_serialized_proto(t) ==
    /\ frame[t].pc = "constructed"
    /\ frame[t].op = "from_serialized_proto"
    /\ IF frame[t].arg \in SerializedModels
       THEN /\ load_result(t, 0, "spp_from_serialized_proto")
            /\ model' = [model EXCEPT ![frame[t].h] = frame[t].arg]
       ELSE /\ \E status \in 1..16 :
                   load_result(t, status, "spp_from_serialized_proto")
            /\ model' = model
    /\ UNCHANGED heap

\* spp_to_serialized_proto: the model the instance holds.
spp_to_serialized_proto(t) ==
    /\ frame[t].pc = "native"
    /\ frame[t].op = "to_serialized_proto"
    /\ \E data \in Addrs :
           native_return(t, 0, data, Len(model[frame[t].h]), model[frame[t].h])

(***************************************************************************)
(* Callers that feed the result of one call to the next, as the tests      *)
(* protobuf_roundtrip_is_identical and sample_encodes_sentence_with_toy_   *)
(* model do.  frame.src carries what the chain started from and the number *)
(* of the trip.                                                            *)
(***************************************************************************)
\* spp.to_serialized_proto() on the processor from_serialized_proto just gave.
serialize_loaded(t) ==
    LET f == frame[t]
    IN  /\ f.pc = "done"
        /\ f.op = "from_serialized_proto"
        /\ f.result.kind = "Ok"
        /\ f.h \in procs
        /\ frame' = [frame EXCEPT ![t] =
                [IdleFrame EXCEPT !.op = "to_serialized_proto", !.pc = "native",
                                  !.h = f.h, !.calls = <<"spp_to_serialized_proto">>,
                                  !.src = IF f.src = <<>> THEN <<f.arg, 1>>
                                          ELSE <<f.src[1], f.src[2] + 1>>]]
        /\ faults' = faults \cup UseFaults(native, f.h)
        /\ UNCHANGED <<native, procs, heap, model>>

\* from_serialized_proto(&bytes) on the bytes to_serialized_proto just gave.
reload_serialized(t) ==
    LET f == frame[t]
    IN  /\ f.pc = "done"
        /\ f.op = "to_serialized_proto"
        /\ f.src # <<>>
        /\ f.src[2] < MaxTrips
        /\ \E h \in Handles :
              /\ native[h] = "unalloc"
              /\ native' = [native EXCEPT ![h] = "empty"]
              /\ frame' = [frame EXCEPT ![t] =
                      [IdleFrame EXCEPT !.op = "from_serialized_proto",
                                        !.pc = "constructed", !.h = h,
                                        !.arg = f.result.value,
                                        !.calls = <<"spp_new">>, !.src = f.src]]
        /\ UNCHANGED <<procs, heap, faults, model>>

\* pieces.iter().map(|p| p.id) of an Ok encode result, handed to
\* decode_piece_ids.  A piece with the unknown id is not handed on: what the
\* engine renders for that id is not described.
decode_encoded(t) ==
    LET f == frame[t]
        ids == [i \in DOMAIN f.result.value |-> f.result.value[i].id]
    IN  /\ f.pc = "done"
        /\ f.op \in EncodeOps
        /\ f.result.kind = "Ok"
        /\ f.h \in procs
        /\ \A i \in DOMAIN ids : ~IsUnknown(ids[i])
        /\ frame' = [frame EXCEPT ![t] =
                [IdleFrame EXCEPT !.op = "decode_piece_ids", !.pc = "native",
                                  !.h = f.h, !.arg = ids,
                                  !.calls = <<"spp_decode_piece_ids">>,
                                  !.src = <<request_of(f).ptr, 1>>]]
        /\ faults' = faults \cup UseFaults(native, f.h)
        /\ UNCHANGED <<native, procs, heap, model>>

Init ==
    /\ native = [h \in Handles |-> "unalloc"]
    /\ procs = {}
    /\ heap = [a \in 1..NThreads |-> "free"]
    /\ frame = [t \in 1..NThreads |-> IdleFrame]
    /\ faults = {}
    /\ model = [h \in Handles |-> <<>>]

Next ==
    \/ \E t \in Threads : open_new(t)
    \/ \E t \in Threads : open_load(t)
    \/ \E t \in Threads : open_legacy_new(t)
    \/ \E t \in Threads : open_legacy_load(t)
    \/ \E t \in Threads : from_serialized_proto_new(t)
    \/ \E t \in Threads : from_serialized_proto_load(t)
    \/ \E h \in Handles : drop(h)
    \/ \E t \in Threads : encode_call(t)
    \/ \E t \in Threads : sample_encode_call(t)
    \/ \E t \in Threads : encode_return(t)
    \/ \E t \in Threads : encode_finish(t)
    \/ \E t \in Threads : decode_piece_ids_call(t)
    \/ \E t \in Threads : decode_pieces_call(t)
    \/ \E t \in Threads : decode_return(t)
    \/ \E t \in Threads : decode_finish(t)
    \/ \E t \in Threads : to_serialized_proto_call(t)
    \/ \E t \in Threads : to_serialized_proto_return(t)
    \/ \E t \in Threads : to_serialized_proto_finish(t)
    \/ \E t \in Threads : reserved_id_call(t)
    \/ \E t \in Threads : reserved_id_return(t)
    \/ \E t \in Threads : piece_to_id_call(t)
    \/ \E t \in Threads : piece_to_id_return(t)
    \/ \E t \in Threads : return(t)

Spec == Init /\ [][Next]_vars

(***************************************************************************)
(* One loaded processor shared by several threads (Sync): each thread      *)
(* issues calls on it, and constructs, uses and drops processors of its    *)
(* own.  The callers' inputs and the engine's answers are one               *)
(* representative of each outcome.                                         *)
(***************************************************************************)
SharedSentences == {<<97, 98>>}
SharedAlphas == {[sign |-> 0, exp |-> 126, mant |-> 0], [sign |-> 0, exp |-> 0, mant |-> 0]}
SharedIdSeqs == {<<8>>, <<8, VocabSize>>}
SharedPieces == {<<97>>, <<97, 0, 98>>}
SharedModels == {<<10>>}
SharedReplies ==
    {r \in EncodeReplies :
        /\ r.msg.text = None
        /\ Len(r.msg.pieces) <= 1
        /\ \A i \in DOMAIN r.msg.pieces :
               IsSome(r.msg.pieces[i].piece) /\ IsSome(r.msg.pieces[i].begin)
                   /\ IsSome(r.msg.pieces[i].end)}

SharedStatuses == {0, 11, 17}
SharedTexts == {<<97>>, <<195>>}

encode_call_shared(t) == encode_call_with(t, SharedSentences)

sample_encode_call_shared(t) ==
    sample_encode_call_with(t, SharedSentences, {MaxNBest, MaxNBest + 1}, SharedAlphas)

decode_piece_ids_call_shared(t) == decode_piece_ids_call_with(t, SharedIdSeqs)

piece_to_id_call_shared(t) == piece_to_id_call_with(t, SharedPieces)

from_serialized_proto_new_shared(t) == from_serialized_proto_new_with(t, SharedModels)

from_serialized_proto_load_shared(t) == from_serialized_proto_load_with(t, SharedStatuses)

encode_return_shared(t) == encode_return_from(t, SharedReplies)

decode_return_shared(t) == decode_return_from(t, SharedStatuses, SharedTexts)

InitShared ==
    /\ native = [h \in Handles |-> IF h = 1 THEN "loaded" ELSE "unalloc"]
    /\ procs = {1}
    /\ heap = [a \in 1..(NThreads + 1) |-> "free"]
    /\ frame = [t \in 1..(NThreads + 1) |-> IdleFrame]
    /\ faults = {}
    /\ model = [h \in Handles |-> <<>>]

NextShared ==
    \/ \E t \in Threads : from_serialized_proto_new_shared(t)
    \/ \E t \in Threads : from_serialized_proto_load_shared(t)
    \/ \E h \in Handles : drop(h)
    \/ \E t \in Threads : encode_call_shared(t)
    \/ \E t \in Threads : sample_encode_call_shared(t)
    \/ \E t \in Threads : encode_return_shared(t)
    \/ \E t \in Threads : encode_finish(t)
    \/ \E t \in Threads : decode_piece_ids_call_shared(t)
    \/ \E t \in Threads : decode_return_shared(t)
    \/ \E t \in Threads : decode_finish(t)
    \/ \E t \in Threads : to_serialized_proto_call(t)
    \/ \E t \in Threads : to_serialized_proto_return(t)
    \/ \E t \in Threads : to_serialized_proto_finish(t)
    \/ \E t \in Threads : piece_to_id_call_shared(t)
    \/ \E t \in Threads : piece_to_id_return(t)
    \/ \E t \in Threads : return(t)

SpecShared == InitShared /\ [][NextShared]_vars

\* The binding against the engine the specification describes.
NextEngine ==
    \/ \E t \in Threads : from_serialized_proto_new(t)
    \/ \E t \in Threads : spp_from_serialized_proto(t)
    \/ \E t \in Threads : serialize_loaded(t)
    \/ \E t \in Threads : reload_serialized(t)
    \/ \E h \in Handles : drop(h)
    \/ \E t \in Threads : to_serialized_proto_call(t)
    \/ \E t \in Threads : spp_to_serialized_proto(t)
    \/ \E t \in Threads : to_serialized_proto_finish(t)
    \/ \E t \in Threads : encode_call(t)
    \/ \E t \in Threads : sample_encode_call(t)
    \/ \E t \in Threads : spp_encode(t)
    \/ \E t \in Threads : encode_finish(t)
    \/ \E t \in Threads : decode_piece_ids_call(t)
    \/ \E t \in Threads : decode_encoded(t)
    \/ \E t \in Threads : spp_decode_piece_ids(t)
    \/ \E t \in Threads : decode_finish(t)
    \/ \E t \in Threads : piece_to_id_call(t)
    \/ \E t \in Threads : spp_piece_to_id(t)
    \/ \E t \in Threads : return(t)

SpecEngine == Init /\ [][NextEngine]_vars

(***************************************************************************)
(* Properties.                                                             *)
(***************************************************************************)
Done(t) == frame[t].pc = "done"
Last(log) == log[Len(log)]
LoadCalls == {"spp_load", "spp_from_serialized_proto"}
DecodeCalls == {"spp_decode_piece_ids", "spp_decode_pieces"}
EncodeCalls == {"spp_encode_as_serialized_proto", "spp_sample_encode_as_serialized_proto"}
BufferCalls == EncodeCalls \cup DecodeCalls \cup {"spp_to_serialized_proto"}
Called(f, fns) == \E i \in DOMAIN f.calls : f.calls[i] \in fns
Constructing(t, h) == frame[t].pc = "constructed" /\ frame[t].h = h

\* C1: every native handle made by spp_new in open or from_serialized_proto
\* is released by spp_free exactly once on every exit path (a failed load, a
\* path rejected for a NUL, or the owner's drop after a successful load): an
\* allocated handle always has exactly one owner, a constructor that ends
\* without Ok has freed its handle once and last, one that ends Ok has not
\* freed it, no spp_free hits a released handle, and no native operation is
\* issued or in progress on a released handle.
C1_HandleReleasedExactlyOnce ==
    /\ "handle_double_free" \notin faults
    /\ "handle_use_after_free" \notin faults
    /\ \A h \in Handles :
         LET owners == {t \in Threads : Constructing(t, h)}
         IN  /\ native[h] # "unalloc" <=> (h \in procs \/ owners # {})
             /\ Cardinality(owners) + (IF h \in procs THEN 1 ELSE 0) <= 1
    /\ \A t \in Threads :
         /\ (Done(t) /\ frame[t].op \in Constructors) =>
                /\ Count(frame[t].calls, "spp_new") = 1
                /\ IF frame[t].result.kind = "Ok"
                   THEN Count(frame[t].calls, "spp_free") = 0
                   ELSE /\ Count(frame[t].calls, "spp_free") = 1
                        /\ Last(frame[t].calls) = "spp_free"
         /\ frame[t].pc \in {"native", "returned"} => native[frame[t].h] = "loaded"

\* C1 witness: a load failed and its handle is released again, while a
\* processor loaded earlier is still owned by the caller.
C1_Witness ==
    \E t \in Threads :
        /\ Done(t)
        /\ frame[t].op = "from_serialized_proto"
        /\ frame[t].result.kind = "Err"
        /\ frame[t].calls = <<"spp_new", "spp_from_serialized_proto", "spp_free">>
        /\ native[frame[t].h] = "unalloc"
        /\ procs # {}

\* C2: every buffer a native call returns (encode, sample_encode,
\* decode_piece_ids, decode_pieces, to_serialized_proto) is held by one CData
\* and freed exactly once when the call ends, whatever the outcome (Ok,
\* EncodeError, MissingData, a status error, a panic): a live buffer belongs to
\* exactly one call that has not ended, a call that ended made exactly one free,
\* as its last act, and no free hits a buffer already freed.
C2_BufferFreedExactlyOnce ==
    /\ "buffer_double_free" \notin faults
    /\ \A a \in Addrs :
         heap[a] = "live" <=>
            Cardinality({t \in Threads : frame[t].pc = "returned" /\ frame[t].data = a}) = 1
    /\ \A t \in Threads :
         /\ (Done(t) /\ Called(frame[t], BufferCalls)) =>
                /\ Count(frame[t].calls, "free") = 1
                /\ Last(frame[t].calls) = "free"
         /\ frame[t].pc = "returned" => Count(frame[t].calls, "free") = 0

\* C2 witness: a decode ended in a panic and its buffer, a real allocation,
\* has been freed once.
C2_Witness ==
    \E t \in Threads :
        /\ Done(t)
        /\ frame[t].op \in DecodeOps
        /\ frame[t].result.kind = "panic"
        /\ frame[t].data # NULL
        /\ heap[frame[t].data] = "free"
        /\ Count(frame[t].calls, "free") = 1

\* C3 (as stated): open on a path with an embedded NUL makes no native call at
\* all, spp_new included, and ends with FilenameContainsNul(path).
C3_NoNativeCallAtAll ==
    \A t \in Threads :
        (frame[t].op = "open" /\ HasNul(frame[t].arg)) =>
            /\ frame[t].calls = <<>>
            /\ Done(t) => frame[t].result = Err("FilenameContainsNul", frame[t].arg)

\* C3 (amended): open on a path with an embedded NUL never reaches spp_load.
\* spp_new has run before the path is looked at, and the handle it made is
\* released by spp_free; the open of sentencepiece/src/lib.rs then returns
\* FilenameContainsNul(path) without panicking, the older open of src/lib.rs
\* panics in unwrap().
C3_NulPathNeverLoads ==
    \A t \in Threads :
        (frame[t].op \in {"open", "open_legacy"} /\ HasNul(frame[t].arg)) =>
            /\ ~Called(frame[t], LoadCalls)
            /\ frame[t].calls[1] = "spp_new"
            /\ Done(t) =>
                /\ frame[t].calls = <<"spp_new", "spp_free">>
                /\ frame[t].op = "open" =>
                       frame[t].result = Err("FilenameContainsNul", frame[t].arg)
                /\ frame[t].op = "open_legacy" => frame[t].result.kind = "panic"

\* C3 witness: open has ended on a path whose NUL is not its first byte.
C3_Witness ==
    \E t \in Threads :
        /\ Done(t)
        /\ frame[t].op = "open"
        /\ frame[t].arg = <<97, 0>>
        /\ frame[t].result.err = "FilenameContainsNul"

\* C4: status translation is total and injective on the defined codes: 0 is
\* success (no error value), each of 1..16 is exactly one variant, no two codes
\* share a variant; and every fallible native call (load from path, load from
\* bytes, decode by id, decode by piece) reports its status through it: status
\* 0 gives no Err, a status in 1..16 gives CError of that code's variant, which
\* is the variant of no other code.
C4_StatusTranslation ==
    /\ from_i32(0) = None
    /\ \A c \in 1..16 : IsSome(from_i32(c)) /\ from_i32(c)[1] \in Variants
    /\ \A a, b \in 1..16 : a # b => from_i32(a) # from_i32(b)
    /\ Cardinality(Variants) = 16
    /\ from_i32(5) = Some("NotFound")
    /\ from_i32(11) = Some("OutOfRange")
    /\ \A t \in Threads :
         (Done(t) /\ Called(frame[t], LoadCalls \cup DecodeCalls)) =>
            /\ frame[t].status = 0 => frame[t].result.kind # "Err"
            /\ frame[t].status \in 1..16 =>
                /\ frame[t].result.kind = "Err"
                /\ frame[t].result.err = "CError"
                /\ frame[t].result.detail \in Variants
                /\ \A c \in 1..16 :
                       from_i32(c) = Some(frame[t].result.detail) <=> c = frame[t].status

\* C4 witness: a load from a path came back with the one code that is out of
\* declaration order, 16, and was reported as CError(Unauthenticated).
C4_Witness ==
    \E t \in Threads :
        /\ Done(t)
        /\ frame[t].op = "open"
        /\ frame[t].status = 16
        /\ frame[t].result = Err("CError", "Unauthenticated")

\* C5: a nonzero status that is none of the sixteen defined codes is fatal:
\* the call panics; it is never returned as Ok nor as any Err.
C5_UnmappedStatusIsFatal ==
    \A t \in Threads :
        (Done(t) /\ Called(frame[t], LoadCalls \cup DecodeCalls)
                 /\ frame[t].status \notin 0..16) =>
            /\ frame[t].result.kind = "panic"
            /\ frame[t].result.detail = "unreachable"

\* C5 witness: a decode by id came back with status 17 and panicked.
C5_Witness ==
    \E t \in Threads :
        /\ Done(t)
        /\ frame[t].op = "decode_piece_ids"
        /\ frame[t].status = 17
        /\ frame[t].result.kind = "panic"

\* C6: for encode and sample_encode a zero-length response is the sole failure
\* signal: a call that reached the engine returns EncodeError exactly when the
\* returned length is 0, and never returns a CError.
C6_EmptyLengthIsEncodeError ==
    \A t \in Threads :
        (Done(t) /\ Called(frame[t], EncodeCalls)) =>
            /\ frame[t].result = Err("EncodeError", <<>>) <=> frame[t].len = 0
            /\ frame[t].result.err # "CError"

\* C6 witness: a sample_encode got a zero-length response and returned
\* EncodeError.
C6_Witness ==
    \E t \in Threads :
        /\ Done(t)
        /\ frame[t].op = "sample_encode"
        /\ Called(frame[t], EncodeCalls)
        /\ frame[t].len = 0
        /\ frame[t].result.err = "EncodeError"

Complete(p) == IsSome(p.piece) /\ IsSome(p.id) /\ IsSome(p.begin) /\ IsSome(p.end)
Absent(p, field) ==
    \/ field = "piece" /\ ~IsSome(p.piece)
    \/ field = "id" /\ ~IsSome(p.id)
    \/ field = "begin" /\ ~IsSome(p.begin)
    \/ field = "end" /\ ~IsSome(p.end)

\* C7: encode and sample_encode return Ok only if every piece record of the
\* decoded response has piece, id, begin and end; then each returned piece
\* carries exactly the record's values.  If any record lacks a field the call
\* fails with MissingData naming a field some record lacks, and no absent
\* field is replaced by a default.
C7_AllFourFieldsOrMissingData ==
    \A t \in Threads :
        (Done(t) /\ Called(frame[t], EncodeCalls) /\ frame[t].len > 0
                 /\ frame[t].content.wellformed) =>
            LET ps == frame[t].content.msg.pieces
                r == frame[t].result
            IN  IF \A i \in DOMAIN ps : Complete(ps[i])
                THEN /\ r.kind = "Ok"
                     /\ Len(r.value) = Len(ps)
                     /\ \A i \in DOMAIN ps :
                            /\ Some(r.value[i].piece) = ps[i].piece
                            /\ Some(r.value[i].id) = ps[i].id
                            /\ Some(r.value[i].span[1]) = ps[i].begin
                            /\ Some(r.value[i].span[2]) = ps[i].end
                ELSE /\ r.kind = "Err"
                     /\ r.err = "MissingData"
                     /\ \E i \in DOMAIN ps : Absent(ps[i], r.detail)

\* C7 witness: the second record of a response lacks only its begin, and the
\* call failed with MissingData("begin").
C7_Witness ==
    \E t \in Threads :
        /\ Done(t)
        /\ frame[t].op = "encode"
        /\ Len(frame[t].content.msg.pieces) = 2
        /\ Complete(frame[t].content.msg.pieces[1])
        /\ ~IsSome(frame[t].content.msg.pieces[2].begin)
        /\ frame[t].result = Err("MissingData", "begin")

\* C8: sample_encode with n_best > 512, or with alpha zero, negative, infinite
\* or NaN, panics on its assertions before the native sampling call is made; it
\* returns neither Ok nor Err.
C8_SamplePreconditionPanics ==
    \A t \in Threads :
        frame[t].op = "sample_encode" =>
            LET n_best == frame[t].arg[1]
                alpha == frame[t].arg[2]
            IN  (\/ n_best > 512
                 \/ is_zero(alpha)
                 \/ alpha.sign = 1
                 \/ is_infinite(alpha)
                 \/ is_nan(alpha)) =>
                    /\ Done(t)
                    /\ frame[t].result.kind = "panic"
                    /\ frame[t].calls = <<>>

\* C8 witness: n_best = 513 with a valid alpha has panicked.
C8_Witness ==
    \E t \in Threads :
        /\ Done(t)
        /\ frame[t].op = "sample_encode"
        /\ frame[t].arg[1] = 513
        /\ is_normal(frame[t].arg[2]) /\ is_positive(frame[t].arg[2])
        /\ frame[t].result.kind = "panic"

\* C9: decode_pieces on a sequence in which any piece holds a NUL byte, at
\* whatever position, returns Err(PieceContainsNul) and makes no native call.
C9_PieceWithNulRejected ==
    \A t \in Threads :
        (frame[t].op = "decode_pieces"
            /\ \E i \in DOMAIN frame[t].arg : HasNul(frame[t].arg[i])) =>
            /\ Done(t)
            /\ frame[t].result = Err("PieceContainsNul", <<>>)
            /\ frame[t].calls = <<>>

\* C9 witness: the offending piece is the second of two.
C9_Witness ==
    \E t \in Threads :
        /\ Done(t)
        /\ frame[t].op = "decode_pieces"
        /\ frame[t].arg = <<(<<97>>), (<<97, 0, 98>>)>>
        /\ frame[t].result.err = "PieceContainsNul"

\* C10: decode_piece_ids and decode_pieces are gated by the status: a call
\* returns Ok(text) only on status 0 (and does so whenever the bytes are UTF-8),
\* a call that returns on any other status returns CError with the translated
\* status, OutOfRange when an id lies outside the vocabulary, and the buffer is
\* read only when the status is 0.  The calls that do not return are the fatal
\* ones: bytes that are not UTF-8 under status 0, and an undefined status.
C10_DecodeGatedByStatus ==
    \A t \in Threads :
        (Done(t) /\ Called(frame[t], DecodeCalls)) =>
            LET f == frame[t]
            IN  /\ f.result.kind = "Ok" => f.status = 0 /\ f.result.value = f.content
                /\ (f.status = 0 /\ Utf8Valid(f.content)) => f.result.kind = "Ok"
                /\ f.result.kind = "Err" <=> f.status \in 1..16
                /\ f.result.kind = "Err" =>
                       f.result.err = "CError" /\ Some(f.result.detail) = from_i32(f.status)
                /\ f.result.kind = "panic" <=>
                       \/ f.status = 0 /\ ~Utf8Valid(f.content)
                       \/ f.status \notin 0..16
                /\ f.views # <<>> => f.status = 0
                /\ (f.op = "decode_piece_ids"
                        /\ \E i \in DOMAIN f.arg : f.arg[i] >= VocabSize) =>
                       f.result = Err("CError", "OutOfRange")

\* C10 witness: the ids 8, 1000 against a vocabulary of 1000 pieces ended in
\* CError(OutOfRange), the buffer unread.
C10_Witness ==
    \E t \in Threads :
        /\ Done(t)
        /\ frame[t].op = "decode_piece_ids"
        /\ frame[t].arg = <<8, 1000>>
        /\ frame[t].result = Err("CError", "OutOfRange")
        /\ frame[t].views = <<>>

\* C11: round-trip law: for model bytes that load successfully,
\* to_serialized_proto on the processor from_serialized_proto(bytes) gave
\* returns exactly bytes; the bytes handed to the second load are therefore
\* bytes again, and serializing the reloaded processor returns bytes once more.
C11_RoundTripIdentical ==
    \A t \in Threads :
        frame[t].src # <<>> =>
            /\ (Done(t) /\ frame[t].op = "to_serialized_proto") =>
                   /\ frame[t].result.kind = "Ok"
                   /\ frame[t].result.value = frame[t].src[1]
            /\ frame[t].op = "from_serialized_proto" => frame[t].arg = frame[t].src[1]

\* C11 witness: the second serialization of a two-byte model has returned
\* the two bytes.
C11_Witness ==
    \E t \in Threads :
        /\ Done(t)
        /\ frame[t].op = "to_serialized_proto"
        /\ frame[t].src = <<(<<10, 18>>), 2>>
        /\ frame[t].result.value = <<10, 18>>

\* C12: span monotonicity: in every Ok result of encode and sample_encode each
\* piece has begin <= end, the first piece begins at 0, every other piece
\* begins where the one before it ended, and the last piece ends at the byte
\* length of the input text.
C12_SpanMonotonicity ==
    \A t \in Threads :
        (Done(t) /\ Called(frame[t], EncodeCalls) /\ frame[t].result.kind = "Ok") =>
            LET ps == frame[t].result.value
                text == request_of(frame[t]).ptr
            IN  /\ ps # <<>>
                /\ \A i \in DOMAIN ps :
                       /\ ps[i].span[1] <= ps[i].span[2]
                       /\ ps[i].span[1] = IF i = 1 THEN 0 ELSE ps[i - 1].span[2]
                /\ ps[Len(ps)].span[2] = Len(text)

\* C12 witness: a text of three bytes came back as three pieces, the last one
\* spanning bytes 2 to 3.
C12_Witness ==
    \E t \in Threads :
        /\ Done(t)
        /\ frame[t].op = "encode"
        /\ frame[t].result.kind = "Ok"
        /\ Len(frame[t].result.value) = 3
        /\ frame[t].result.value[3].span = <<2, 3>>

InVocabulary(piece) == \E e \in Vocabulary : e[2] = piece

\* C14 (as stated): piece_to_id on any string absent from the vocabulary
\* returns Ok(None) and never an error; on a vocabulary piece other than the
\* unknown piece it returns Ok(Some(id)) with the piece's id.
C14_AbsentNeverError ==
    \A t \in Threads :
        (Done(t) /\ frame[t].op = "piece_to_id") =>
            LET piece == frame[t].arg[1]
                r == frame[t].result
            IN  /\ ~InVocabulary(piece) => r.kind = "Ok" /\ r.value = None
                /\ piece \in NormalPieces =>
                       r.kind = "Ok" /\ r.value = Some(PieceToId(piece))

\* C14 (amended): piece_to_id on a string without a NUL byte that is absent
\* from the vocabulary returns Ok(None) after the two native lookups; on a
\* vocabulary piece other than the unknown piece it returns Ok(Some(id)); on a
\* string with a NUL byte it returns Err(NulError) before any native call.
C14_AbsentIsNoneNulIsError ==
    \A t \in Threads :
        (Done(t) /\ frame[t].op = "piece_to_id") =>
            LET piece == frame[t].arg[1]
                r == frame[t].result
            IN  /\ HasNul(piece) =>
                       r.kind = "Err" /\ r.err = "NulError" /\ frame[t].calls = <<>>
                /\ (~HasNul(piece) /\ ~InVocabulary(piece)) =>
                       /\ r.kind = "Ok" /\ r.value = None
                       /\ frame[t].calls = <<"spp_piece_to_id", "spp_is_unknown">>
                /\ piece \in NormalPieces =>
                       r.kind = "Ok" /\ r.value = Some(PieceToId(piece))

\* C14 witness: a string with a NUL, absent from the vocabulary, was refused.
C14_Witness ==
    \E t \in Threads :
        /\ Done(t)
        /\ frame[t].op = "piece_to_id"
        /\ frame[t].arg[1] = <<97, 0, 98>>
        /\ ~InVocabulary(frame[t].arg[1])
        /\ frame[t].result.err = "NulError"

OptionOf(v) == IF v < 0 THEN None ELSE Some(v)

\* C15 (as stated): each of bos_id, eos_id, pad_id and unk_id returns None for
\* a negative native value and Some(value) otherwise, and none of them fails
\* or panics on a negative value.
C15_AllFourOptional ==
    \A t \in Threads :
        (Done(t) /\ frame[t].op \in ReservedIdOps) =>
            /\ frame[t].result.kind = "Ok"
            /\ frame[t].result.value = OptionOf(frame[t].ret)

\* C15 (amended): bos_id, eos_id and pad_id return None for a negative native
\* value and Some(value) otherwise, without error or panic; unk_id returns the
\* bare id for a non-negative native value and panics on a negative one.
C15_ThreeOptionalUnkAsserted ==
    \A t \in Threads :
        (Done(t) /\ frame[t].op \in ReservedIdOps) =>
            IF frame[t].op = "unk_id"
            THEN IF frame[t].ret >= 0
                 THEN /\ frame[t].result.kind = "Ok"
                      /\ frame[t].result.value = <<"u32", frame[t].ret>>
                 ELSE frame[t].result.kind = "panic"
            ELSE /\ frame[t].result.kind = "Ok"
                 /\ frame[t].result.value = OptionOf(frame[t].ret)

\* C15 witness: spp_unk_id returned -1 and unk_id panicked.
C15_Witness ==
    \E t \in Threads :
        /\ Done(t)
        /\ frame[t].op = "unk_id"
        /\ frame[t].ret = -1
        /\ frame[t].result.kind = "panic"

MethodOps == EncodeOps \cup DecodeOps \cup ReservedIdOps
                \cup {"to_serialized_proto", "piece_to_id"}

\* C16: construction plus load is atomic for the caller: a constructor returns
\* Ok(processor) exactly when it reached the native load and the load returned
\* 0; on every other exit the caller gets an error (or the panic) only and the
\* handle has been released; every processor a caller holds is loaded, and so
\* is the handle of every encode, decode, lookup or serialize call.
C16_ConstructionAtomic ==
    /\ \A h \in procs : native[h] = "loaded"
    /\ \A t \in Threads :
         /\ (Done(t) /\ frame[t].op \in Constructors) =>
                /\ frame[t].result.kind = "Ok" <=>
                       (Called(frame[t], LoadCalls) /\ frame[t].status = 0)
                /\ frame[t].result.kind = "Ok" => frame[t].result.value = frame[t].h
                /\ frame[t].result.kind # "Ok" =>
                       /\ frame[t].result.kind \in {"Err", "panic"}
                       /\ frame[t].result.value = <<>>
                       /\ Last(frame[t].calls) = "spp_free"
         /\ (frame[t].op \in MethodOps /\ frame[t].calls # <<>>) =>
                (frame[t].pc # "done" => native[frame[t].h] = "loaded")
         /\ Constructing(t, frame[t].h) => frame[t].h \notin procs

\* C16 witness: open came back with NotFound; the caller holds an error, and
\* the handle is gone.
C16_Witness ==
    \E t \in Threads :
        /\ Done(t)
        /\ frame[t].op = "open"
        /\ frame[t].status = 5
        /\ frame[t].result.kind = "Err"
        /\ frame[t].result.detail = "NotFound"
        /\ frame[t].h \notin procs
        /\ native[frame[t].h] = "unalloc"

InCall(t, h) == frame[t].pc \in {"native", "returned"} /\ frame[t].h = h
Active(t, h) == Constructing(t, h) \/ InCall(t, h)

\* C17: under every interleaving of encode, sample_encode, decode and lookup
\* calls of several threads on one shared processor (with serialize calls and
\* constructions going on beside them): a live buffer is held by exactly one
\* call, the one that received it, and only that call's end frees it; no free
\* or native call hits released memory; while a call is in progress on a
\* handle the engine instance behind it is left as it is and stays owned; and
\* so the handle is released only when no call on it is in progress.
C17_SharedCallsIsolated ==
    /\ [](/\ faults = {}
          /\ \A a \in Addrs :
                heap[a] = "live" <=>
                    Cardinality({t \in Threads :
                        frame[t].pc = "returned" /\ frame[t].data = a}) = 1
          /\ \A t \in Threads, h \in Handles :
                InCall(t, h) => h \in procs /\ native[h] = "loaded")
    /\ [][/\ \A a \in Addrs :
                (heap[a] = "live" /\ heap'[a] = "free") =>
                    \E t \in Threads :
                        /\ frame[t].pc = "returned"
                        /\ frame[t].data = a
                        /\ frame'[t].pc = "done"
          /\ \A h \in Handles :
                (\E t \in Threads : InCall(t, h)) =>
                    /\ native'[h] = native[h]
                    /\ model'[h] = model[h]
                    /\ h \in procs']_vars

\* C17 witness: two threads are inside calls on the same processor, each
\* holding a live buffer of its own.
C17_Witness ==
    \E t1, t2 \in Threads :
        /\ t1 # t2
        /\ frame[t1].pc = "returned" /\ frame[t2].pc = "returned"
        /\ frame[t1].h = frame[t2].h
        /\ frame[t1].op = "encode" /\ frame[t2].op = "decode_piece_ids"
        /\ frame[t1].data # NULL /\ frame[t2].data # NULL
        /\ frame[t1].data # frame[t2].data
        /\ heap[frame[t1].data] = "live" /\ heap[frame[t2].data] = "live"

\* C18 (as stated): a load on a handle overlaps with no other operation on
\* that handle, and a to_serialized_proto call on a handle overlaps with no
\* encode, decode, lookup or other serialize call on the same handle.
C18_LoadAndSerializeExclusive ==
    \A t1, t2 \in Threads, h \in Handles :
        (t1 # t2 /\ Active(t1, h) /\ Active(t2, h)) =>
            /\ frame[t1].op \notin Constructors
            /\ frame[t1].op # "to_serialized_proto"

\* C18 (amended): a load on a handle overlaps with no other operation on that
\* handle: from spp_new to the end of the constructor the handle is held by
\* the constructor alone.  to_serialized_proto is a &self call like the
\* others: it overlaps with no load and no release of its handle, but nothing
\* keeps it from overlapping with other calls on the same handle.
C18_LoadExclusive ==
    \A t1 \in Threads, h \in Handles :
        /\ Constructing(t1, h) =>
               /\ h \notin procs
               /\ native[h] = "empty"
               /\ \A t2 \in Threads : t2 # t1 => ~Active(t2, h)
        /\ (InCall(t1, h) /\ frame[t1].op = "to_serialized_proto") =>
               /\ native[h] = "loaded"
               /\ h \in procs
               /\ \A t2 \in Threads : ~Constructing(t2, h)

\* C18 witness: one thread is between spp_new and the load on a fresh handle
\* while the other is inside to_serialized_proto on the shared processor.
C18_Witness ==
    \E t1, t2 \in Threads :
        /\ frame[t1].pc = "constructed"
        /\ frame[t1].op = "from_serialized_proto"
        /\ frame[t2].pc = "native"
        /\ frame[t2].op = "to_serialized_proto"
        /\ frame[t1].h # frame[t2].h

\* C19: a malformed payload under a success signal is fatal: a non-empty
\* encode response that does not parse as the wire message ends the call in a
\* panic (never Ok, with an empty list or any other, and never Err), and decoded
\* bytes that are not UTF-8 under status 0 end the call in a panic.
C19_MalformedPayloadIsFatal ==
    \A t \in Threads :
        Done(t) =>
            /\ (Called(frame[t], EncodeCalls) /\ frame[t].len > 0
                    /\ ~frame[t].content.wellformed) =>
                   frame[t].result.kind = "panic"
            /\ (Called(frame[t], DecodeCalls) /\ frame[t].status = 0
                    /\ ~Utf8Valid(to_owned(frame[t]))) =>
                   frame[t].result.kind = "panic"

\* C19 witness: an encode got one byte that is no wire message and panicked.
C19_Witness ==
    \E t \in Threads :
        /\ Done(t)
        /\ frame[t].op = "encode"
        /\ frame[t].len = 1
        /\ ~frame[t].content.wellformed
        /\ frame[t].result.kind = "panic"

\* C20 (as stated): sample_encode reaches the native call for every n_best in
\* 0..=512 and every alpha that is strictly positive and finite, the smallest
\* positive values included.
C20_PositiveFiniteAccepted ==
    \A t \in Threads :
        frame[t].op = "sample_encode" =>
            LET n_best == frame[t].arg[1]
                alpha == frame[t].arg[2]
            IN  (n_best <= 512 /\ alpha.sign = 0 /\ ~is_zero(alpha)
                    /\ ~is_infinite(alpha) /\ ~is_nan(alpha)) =>
                    Called(frame[t], EncodeCalls)

\* C20 (amended): the precondition of sample_encode is exactly n_best <= 512
\* and alpha positive and normal: with it the call reaches the native function,
\* without it (a positive subnormal alpha included) the call panics before.
C20_NormalPositiveAccepted ==
    \A t \in Threads :
        frame[t].op = "sample_encode" =>
            LET n_best == frame[t].arg[1]
                alpha == frame[t].arg[2]
            IN  IF n_best <= 512 /\ alpha.sign = 0 /\ alpha.exp \in 1..254
                THEN frame[t].calls[1] = "spp_sample_encode_as_serialized_proto"
                ELSE /\ Done(t)
                     /\ frame[t].result.kind = "panic"
                     /\ frame[t].calls = <<>>

\* C20 witness: alpha is the positive subnormal, n_best is 512, and the call
\* has panicked.
C20_Witness ==
    \E t \in Threads :
        /\ Done(t)
        /\ frame[t].op = "sample_encode"
        /\ frame[t].arg[1] = 512
        /\ frame[t].arg[2] = [sign |-> 0, exp |-> 0, mant |-> 1]
        /\ frame[t].result.kind = "panic"

\* C21: encode and sample_encode hand the engine the text with its full byte
\* length, so a text with an embedded NUL is neither rejected nor cut at the
\* NUL: the call returns Ok, the request's length is the text's byte length,
\* the NUL comes back as a piece whose text is the single NUL byte, spanning
\* the NUL's position, and the pieces after it cover the bytes after the NUL
\* up to the end of the text.
C21_NulNotTruncated ==
    \A t \in Threads :
        (Done(t) /\ Called(frame[t], EncodeCalls)
                 /\ HasNul(request_of(frame[t]).ptr)) =>
            LET text == request_of(frame[t]).ptr
                ps == frame[t].result.value
            IN  /\ request_of(frame[t]).len = Len(text)
                /\ frame[t].result.kind = "Ok"
                /\ \A k \in DOMAIN text :
                       text[k] = 0 =>
                           \E i \in DOMAIN ps :
                               /\ ps[i].piece = <<0>>
                               /\ ps[i].span = <<k - 1, k>>
                               /\ \A j \in (i + 1)..Len(ps) :
                                      ps[j].piece = SubSeq(text, ps[j].span[1] + 1,
                                                           ps[j].span[2])
                               /\ ps[Len(ps)].span[2] = Len(text)

\* C21 witness: encode of the text a, NUL, b returned three pieces, the
\* second one the NUL at bytes 1 to 2 and the third one b at bytes 2 to 3.
C21_Witness ==
    \E t \in Threads :
        /\ Done(t)
        /\ frame[t].op = "encode"
        /\ request_of(frame[t]).ptr = <<97, 0, 98>>
        /\ frame[t].result.kind = "Ok"
        /\ Len(frame[t].result.value) = 3
        /\ frame[t].result.value[2].piece = <<0>>
        /\ frame[t].result.value[2].span = <<1, 2>>
        /\ frame[t].result.value[3].piece = <<98>>

\* C22: the bytes of a foreign buffer are viewed as a slice only when the
\* native call delivered a non-null pointer, and never beyond the length it
\* reported; on the encode failure path (length 0) and on the decode error
\* path (nonzero status) the CData is not viewed at all.
C22_NoViewOfNullOrOnFailure ==
    \A t \in Threads :
        /\ \A i \in DOMAIN frame[t].views :
               /\ frame[t].views[i].data # NULL
               /\ frame[t].views[i].len <= frame[t].len
        /\ (Called(frame[t], EncodeCalls) /\ frame[t].len = 0) =>
               frame[t].views = <<>>
        /\ (Called(frame[t], DecodeCalls) /\ frame[t].status # 0) =>
               frame[t].views = <<>>

\* The first record of ps, in sequence order, that lacks a field.
FirstDefective(ps) ==
    CHOOSE i \in DOMAIN ps :
        /\ ~Complete(ps[i])
        /\ \A j \in 1..(i - 1) : Complete(ps[j])

\* The first field p lacks, in the order piece, id, begin, end.
FirstAbsent(p) ==
    CHOOSE f \in {"piece", "id", "begin", "end"} :
        /\ Absent(p, f)
        /\ f = "id" => IsSome(p.piece)
        /\ f = "begin" => IsSome(p.piece) /\ IsSome(p.id)
        /\ f = "end" => IsSome(p.piece) /\ IsSome(p.id) /\ IsSome(p.begin)

\* C23: missing-field reporting is first-defect and all-or-nothing: when the
\* decoded response holds defective piece records, encode and sample_encode
\* return one MissingData error, which names the first absent field, in the
\* order piece, id, begin, end, of the first defective record in sequence
\* order; the result is that error alone, with no list of the well-formed
\* pieces before the defective record.
C23_FirstDefectAllOrNothing ==
    \A t \in Threads :
        (Done(t) /\ Called(frame[t], EncodeCalls) /\ frame[t].len > 0
                 /\ frame[t].content.wellformed
                 /\ \E i \in DOMAIN frame[t].content.msg.pieces :
                        ~Complete(frame[t].content.msg.pieces[i])) =>
            LET ps == frame[t].content.msg.pieces
                r == frame[t].result
            IN  /\ r.kind = "Err"
                /\ r.err = "MissingData"
                /\ r.detail = FirstAbsent(ps[FirstDefective(ps)])
                /\ r.value = NoResult.value

\* C23 witness: the first record of a response lacks begin and end, the
\* second lacks its piece, and the call failed with MissingData("begin").
C23_Witness ==
    \E t \in Threads :
        /\ Done(t)
        /\ frame[t].op = "sample_encode"
        /\ Called(frame[t], EncodeCalls)
        /\ Len(frame[t].content.msg.pieces) = 2
        /\ IsSome(frame[t].content.msg.pieces[1].piece)
        /\ IsSome(frame[t].content.msg.pieces[1].id)
        /\ ~IsSome(frame[t].content.msg.pieces[1].begin)
        /\ ~IsSome(frame[t].content.msg.pieces[1].end)
        /\ ~IsSome(frame[t].content.msg.pieces[2].piece)
        /\ frame[t].result.kind = "Err"
        /\ frame[t].result.detail = "begin"

====
